---- MODULE Spec2Model ----
(***************************************************************************)
(* Model of the raw ICMP socket of src/sys/unix.rs: the Socket struct, its *)
(* constructor connect, recv / recv_from / send, the option getters and    *)
(* setters, and Drop.  The operating system is the environment: every      *)
(* syscall either succeeds or fails with an errno, and socket options are  *)
(* kept by the OS as the bytes it was handed.                              *)
(***************************************************************************)
EXTENDS Integers, Sequences, FiniteSets, TLC

VARIABLES sock, inst, nSockets, osFds, osOpts, shadow, last, endian

vars == <<sock, inst, nSockets, osFds, osOpts, shadow, last, endian>>

(* ------------------------------ bounds --------------------------------- *)

\* Number of Socket values constructed and destroyed in one behaviour.
MaxSockets == 2
\* Longest caller buffer handed to recv / recv_from / send.
MaxLen == 1

(* ----------------------------- constants ------------------------------- *)

AF_INET == 2
AF_INET6 == 10
SOCK_RAW == 3
SOCK_CLOEXEC == 524288
IPPROTO_ICMP == 1
IPPROTO_IP == 0
IPPROTO_IPV6 == 41
IP_TTL == 2
IP_TOS == 1
IPV6_UNICAST_HOPS == 16
IPV6_TCLASS == 67
SOL_SOCKET == 1
SO_BROADCAST == 6

\* errno values the OS may report (io::Error::last_os_error).
Errnos == {"EINTR", "EPERM"}

\* Descriptors the OS may hand out.
Fds == {3, 4}

\* The abstract addresses std::net::IpAddr of the model.
Addrs == {[tag |-> "V4", ip |-> 1], [tag |-> "V4", ip |-> 2], [tag |-> "V6", ip |-> 1]}

\* A u32 is written as its four bytes, most significant first, so that values
\* of 2^31 and above are representable: <<128, 0, 0, 0>> is 0x80000000.
\* Values the callers pass to set_ttl (u32) and set_qos (u8).
TtlVals == { <<0, 0, 0, 1>>, <<128, 0, 0, 0>>, <<255, 255, 255, 255>> }
QosVals == {1, 255}

(* ----------------------------- result type ----------------------------- *)

Ok(v) == [kind |-> "Ok", val |-> v, err |-> "none"]
Err(e) == [kind |-> "Err", val |-> 0, err |-> e]
Panic == [kind |-> "Panic", val |-> 0, err |-> "unreachable"]

\* Raw outcome of a syscall: the return value, errno when it is -1, and the
\* bytes the OS wrote to the caller's out-buffer (getsockopt, recvfrom).
OsOk(n, out) == [ret |-> n, errno |-> "none", out |-> out]
OsFail(e) == [ret |-> -1, errno |-> e, out |-> <<>>]

(* ------------------------- compat collaborators ------------------------ *)

\* compat::cvt : -1 becomes Err(last_os_error), anything else Ok(value).
cvt(r) == IF r.ret = -1 THEN Err(r.errno) ELSE Ok(r.ret)

\* err.kind() == ErrorKind::Interrupted
Interrupted(res) == res.kind = "Err" /\ res.err = "EINTR"

\* compat::IntoInner<sockaddr> for IpAddr : family-tagged native address.
into_inner(addr) ==
    [sa_family |-> IF addr.tag = "V4" THEN AF_INET ELSE AF_INET6,
     sa_data |-> addr.ip]

\* compat::FromInner<sockaddr> for IpAddr.
from_inner(sa) ==
    [tag |-> IF sa.sa_family = AF_INET THEN "V4" ELSE "V6", ip |-> sa.sa_data]

SockAddrs == {into_inner(a) : a \in Addrs}

(* --------------------------- integer widths ---------------------------- *)

Min(a, b) == IF a < b THEN a ELSE b

\* `v as c_int` for a u32 v: the same 32 bits, read as a signed integer.
U32AsCInt(v) ==
    (IF v[1] >= 128 THEN v[1] - 256 ELSE v[1]) * 16777216
        + v[2] * 65536 + v[3] * 256 + v[4]

Reverse(s) == [i \in 1..Len(s) |-> s[Len(s) + 1 - i]]

\* The four bytes of a c_int (two's complement), most significant first.
BigBytes(x) ==
    << (x \div 16777216) % 256, (x \div 65536) % 256, (x \div 256) % 256, x % 256 >>

\* Memory image of a c_int on the target the crate was built for, lowest
\* address first.
ToBytes(x) == IF endian = "big" THEN BigBytes(x) ELSE Reverse(BigBytes(x))

SizeOf(T) == IF T = "u8" THEN 1 ELSE 4

\* A zeroed slot of n bytes after the OS wrote `out` at its start.
Slot(out, n) == [i \in 1..n |-> IF i <= Len(out) THEN out[i] ELSE 0]

\* The bytes of a 4-byte memory image, most significant first.
FromBytes(b) == IF endian = "big" THEN b ELSE Reverse(b)

\* The slot read back as a value of type T.
FromSlot(T, b) ==
    CASE T = "u8" -> b[1]
      [] T = "u32" -> FromBytes(b)
      [] T = "c_int" -> U32AsCInt(FromBytes(b))

(* ------------------------------ option codec --------------------------- *)

OptKeys ==
    { <<IPPROTO_IP, IP_TTL>>, <<IPPROTO_IP, IP_TOS>>,
      <<IPPROTO_IPV6, IPV6_UNICAST_HOPS>>, <<IPPROTO_IPV6, IPV6_TCLASS>>,
      <<SOL_SOCKET, SO_BROADCAST>> }

Unreachable == [sys |-> "unreachable"]

\* compat::setsockopt(sock, level, name, payload): one setsockopt syscall on
\* the socket's descriptor with the payload's memory image.
setsockopt(self, level, name, payload) ==
    [sys |-> "setsockopt", fd |-> self.fd, level |-> level, name |-> name,
     bytes |-> ToBytes(payload)]

\* compat::getsockopt::<T>(sock, level, name): one getsockopt syscall asking
\* for size_of::<T>() bytes.
getsockopt(self, level, name, T) ==
    [sys |-> "getsockopt", fd |-> self.fd, level |-> level, name |-> name,
     len |-> SizeOf(T), ty |-> T]

\* What compat::setsockopt returns for the syscall's outcome r.
setsockopt_ret(r) == IF cvt(r).kind = "Err" THEN cvt(r) ELSE Ok(0)

\* What compat::getsockopt::<T> returns for the syscall's outcome r.
getsockopt_ret(T, r) ==
    IF cvt(r).kind = "Err" THEN cvt(r) ELSE Ok(FromSlot(T, Slot(r.out, SizeOf(T))))

(* ------------------------------- Socket -------------------------------- *)

\* No Socket value exists (before connect, after drop).
NoSocket == [st |-> "none", fd |-> -1, family |-> 0, peer |-> [sa_family |-> 0, sa_data |-> 0]]

\* connect: the family derived from the address variant.
connect_family(addr) == IF addr.tag = "V4" THEN AF_INET ELSE AF_INET6

\* connect: the socket(family, SOCK_RAW | SOCK_CLOEXEC, IPPROTO_ICMP) syscall.
connect_call(addr) ==
    [sys |-> "socket", family |-> connect_family(addr),
     ty |-> SOCK_RAW + SOCK_CLOEXEC, proto |-> IPPROTO_ICMP]

\* connect without the `?`: the raw return is taken as the descriptor.
connect_ret_unchecked(addr, r) ==
    Ok([fd |-> r.ret, family |-> connect_family(addr), peer |-> into_inner(addr)])

\* connect: `cvt(..)?` then Ok(Socket { fd, family, peer }).
connect_ret(addr, r) ==
    IF cvt(r).kind = "Err" THEN cvt(r)
    ELSE Ok([fd |-> cvt(r).val, family |-> connect_family(addr), peer |-> into_inner(addr)])

\* recv: the recv(fd, buf, len, 0) syscall.
recv_call(self, len) == [sys |-> "recv", fd |-> self.fd, len |-> len, flags |-> 0]

\* recv without the Interrupted arm: every error is propagated.
recv_ret_propagating(r) == IF cvt(r).kind = "Ok" THEN Ok(cvt(r).val) ELSE cvt(r)

\* recv: the match on cvt's result.
recv_ret(r) ==
    CASE cvt(r).kind = "Ok" -> Ok(cvt(r).val)
      [] Interrupted(cvt(r)) -> Ok(0)
      [] OTHER -> cvt(r)

\* recv_from: the recvfrom(fd, buf, len, 0, &mut peer, &mut len) syscall.
recv_from_call(self, len) == [sys |-> "recvfrom", fd |-> self.fd, len |-> len, flags |-> 0]

\* recv_from: the match on cvt's result; peer is the local sockaddr after the call.
recv_from_ret(r, peer) ==
    CASE cvt(r).kind = "Ok" -> Ok(<<cvt(r).val, from_inner(peer)>>)
      [] Interrupted(cvt(r)) -> Ok(<<0, from_inner(peer)>>)
      [] OTHER -> cvt(r)

\* send with a zeroed destination instead of the stored peer.
send_call_zeroed(self, len) ==
    [sys |-> "sendto", fd |-> self.fd, len |-> len, flags |-> 0,
     dest |-> [sa_family |-> 0, sa_data |-> 0]]

\* send: the sendto(fd, buf, len, 0, &self.peer, size_of peer) syscall.
send_call(self, len) ==
    [sys |-> "sendto", fd |-> self.fd, len |-> len, flags |-> 0, dest |-> self.peer]

\* send: `cvt(..)?` then Ok(ret as usize).
send_ret(r) == IF cvt(r).kind = "Err" THEN cvt(r) ELSE Ok(cvt(r).val)

\* set_ttl with a saturating conversion instead of `as c_int`.
set_ttl_call_saturating(self, ttl) ==
    LET v == IF ttl[1] >= 128 THEN 2147483647 ELSE U32AsCInt(ttl)
    IN  CASE self.family = AF_INET -> setsockopt(self, IPPROTO_IP, IP_TTL, v)
          [] self.family = AF_INET6 -> setsockopt(self, IPPROTO_IPV6, IPV6_UNICAST_HOPS, v)
          [] OTHER -> Unreachable

set_ttl_call(self, ttl) ==
    CASE self.family = AF_INET -> setsockopt(self, IPPROTO_IP, IP_TTL, U32AsCInt(ttl))
      [] self.family = AF_INET6 -> setsockopt(self, IPPROTO_IPV6, IPV6_UNICAST_HOPS, U32AsCInt(ttl))
      [] OTHER -> Unreachable

ttl_call(self) ==
    CASE self.family = AF_INET -> getsockopt(self, IPPROTO_IP, IP_TTL, "u32")
      [] self.family = AF_INET6 -> getsockopt(self, IPPROTO_IPV6, IPV6_UNICAST_HOPS, "u32")
      [] OTHER -> Unreachable

\* ttl substituting the default hop limit when getsockopt fails.
ttl_ret_defaulting(r) ==
    IF getsockopt_ret("u32", r).kind = "Err" THEN Ok(<<0, 0, 0, 64>>)
    ELSE getsockopt_ret("u32", r)

\* ttl: getsockopt::<u32>'s result, returned as is.
ttl_ret(r) == getsockopt_ret("u32", r)

\* set_broadcast: `broadcast as c_int` is 1 for true and 0 for false.
set_broadcast_call(self, broadcast) ==
    setsockopt(self, SOL_SOCKET, SO_BROADCAST, IF broadcast THEN 1 ELSE 0)

broadcast_call(self) == getsockopt(self, SOL_SOCKET, SO_BROADCAST, "c_int")

\* broadcast with the comparison inverted.
broadcast_ret_inverted(r) ==
    IF getsockopt_ret("c_int", r).kind = "Err" THEN getsockopt_ret("c_int", r)
    ELSE Ok(getsockopt_ret("c_int", r).val = 0)

\* broadcast: `let raw: c_int = getsockopt(..)?; Ok(raw != 0)`.
broadcast_ret(r) ==
    IF getsockopt_ret("c_int", r).kind = "Err" THEN getsockopt_ret("c_int", r)
    ELSE Ok(getsockopt_ret("c_int", r).val # 0)

\* set_qos without the family dispatch: always the IPv4 option.
set_qos_call_v4only(self, qos) == setsockopt(self, IPPROTO_IP, IP_TOS, qos)

set_qos_call(self, qos) ==
    CASE self.family = AF_INET -> setsockopt(self, IPPROTO_IP, IP_TOS, qos)
      [] self.family = AF_INET6 -> setsockopt(self, IPPROTO_IPV6, IPV6_TCLASS, qos)
      [] OTHER -> Unreachable

qos_call(self) ==
    CASE self.family = AF_INET -> getsockopt(self, IPPROTO_IP, IP_TOS, "u8")
      [] self.family = AF_INET6 -> getsockopt(self, IPPROTO_IPV6, IPV6_TCLASS, "u8")
      [] OTHER -> Unreachable

\* qos: getsockopt::<u8>'s result, returned as is.
qos_ret(r) == getsockopt_ret("u8", r)

\* Drop closing the family field instead of the descriptor.
drop_call_family(self) == [sys |-> "close", fd |-> self.family]

\* Drop: the close(fd) syscall.
drop_call(self) == [sys |-> "close", fd |-> self.fd]

\* Drop: `let _ = close(..)`: the outcome is discarded.
drop_ret(r) == Ok(0)

(* ------------------------- the operating system ------------------------ *)

Failures == {OsFail(e) : e \in Errnos}

\* Option values of a freshly created socket: hop limit 64, the rest 0.
DefaultOpts ==
    [k \in OptKeys |->
        IF k = <<IPPROTO_IP, IP_TTL>> \/ k = <<IPPROTO_IPV6, IPV6_UNICAST_HOPS>>
        THEN ToBytes(64) ELSE ToBytes(0)]

OpenFds == {fd \in Fds : osFds[fd] # 0}

\* socket(): a free descriptor, or a refusal.
OsSocket == {OsOk(fd, <<>>) : fd \in Fds \ OpenFds} \cup Failures

\* recv(): up to len bytes, or a failure.
OsRecv(call) == {OsOk(n, <<>>) : n \in 0..call.len} \cup Failures

\* recvfrom(): up to len bytes and the sender's native address, or a failure.
OsRecvfrom(call) ==
    {OsOk(n, <<sa>>) : n \in 0..call.len,
                       sa \in {x \in SockAddrs : x.sa_family = osFds[call.fd]}}
        \cup Failures

\* sendto(): up to len bytes accepted, or a failure.
OsSendto(call) == {OsOk(n, <<>>) : n \in 0..call.len} \cup Failures

\* setsockopt(): 0, or a failure.
OsSetsockopt == {OsOk(0, <<>>)} \cup Failures

\* getsockopt(): the first len bytes of the stored value, or a failure.
OsGetsockopt(call) ==
    {OsOk(0, SubSeq(osOpts[call.fd][<<call.level, call.name>>], 1, Min(call.len, 4)))}
        \cup Failures

\* close(): 0, or a failure.
OsClose == {OsOk(0, <<>>)} \cup Failures

\* The option store after a setsockopt call with outcome r.
OsStore(call, r) ==
    IF r.ret = 0
    THEN [osOpts EXCEPT ![call.fd][<<call.level, call.name>>] = call.bytes]
    ELSE osOpts

(* ------------------------------ observation ---------------------------- *)

\* What the last public operation did: its syscalls, the raw outcome of the
\* syscall, the value it returned, and for recv_from whether the decoded
\* sockaddr was one the OS had written.
Obs(op, i, arg, calls, raw, res, decoded) ==
    [op |-> op, inst |-> i, arg |-> arg, calls |-> calls, raw |-> raw,
     res |-> res, decoded |-> decoded]

NoShadow == [ttl |-> <<>>, qos |-> -1, bc |-> -1]

NoInst == [state |-> "unborn", fd |-> -1, addr |-> [tag |-> "none", ip |-> 0], closes |-> 0]

Live == sock.st = "live"

\* The family dispatch fell into unreachable!(): the operation panics.
Aborted(op, arg) ==
    /\ last' = Obs(op, nSockets, arg, <<>>, OsOk(0, <<>>), Panic, "none")
    /\ UNCHANGED <<sock, inst, nSockets, osFds, osOpts, shadow, endian>>

(* -------------------------------- actions ------------------------------ *)

Init ==
    /\ endian \in {"little", "big"}
    /\ sock = NoSocket
    /\ inst = [i \in 1..MaxSockets |-> NoInst]
    /\ nSockets = 0
    /\ osFds = [fd \in Fds |-> 0]
    /\ osOpts = [fd \in Fds |-> DefaultOpts]
    /\ shadow = NoShadow
    /\ last = Obs("none", 0, 0, <<>>, OsOk(0, <<>>), Ok(0), "none")

Connect ==
    \E addr \in Addrs :
        /\ ~Live
        /\ nSockets < MaxSockets
        /\ LET call == connect_call(addr) IN
           \E r \in OsSocket :
               LET res == connect_ret(addr, r)
                   made == res.kind = "Ok"
                   n == IF made THEN nSockets + 1 ELSE nSockets
               IN  /\ last' = Obs("connect", n, addr, <<call>>, r, res, "none")
                   /\ nSockets' = n
                   /\ sock' = IF made THEN [st |-> "live"] @@ res.val ELSE sock
                   /\ inst' = IF made
                              THEN [inst EXCEPT ![n] = [state |-> "open", fd |-> r.ret,
                                                        addr |-> addr, closes |-> 0]]
                              ELSE inst
                   /\ osFds' = IF r.ret >= 0 THEN [osFds EXCEPT ![r.ret] = call.family]
                               ELSE osFds
                   /\ osOpts' = IF r.ret >= 0 THEN [osOpts EXCEPT ![r.ret] = DefaultOpts]
                                ELSE osOpts
                   /\ shadow' = IF made THEN NoShadow ELSE shadow
                   /\ UNCHANGED endian

Recv ==
    \E len \in 0..MaxLen :
        /\ Live
        /\ LET call == recv_call(sock, len) IN
           \E r \in OsRecv(call) :
               /\ last' = Obs("recv", nSockets, len, <<call>>, r, recv_ret(r), "none")
               /\ UNCHANGED <<sock, inst, nSockets, osFds, osOpts, shadow, endian>>

RecvFrom ==
    \E len \in 0..MaxLen, garbage \in SockAddrs :
        /\ Live
        /\ LET call == recv_from_call(sock, len) IN
           \E r \in OsRecvfrom(call) :
               LET written == r.ret >= 0
                   peer == IF written THEN r.out[1] ELSE garbage
                   res == recv_from_ret(r, peer)
                   decoded == IF res.kind # "Ok" THEN "none"
                              ELSE IF written THEN "written" ELSE "uninit"
               IN  /\ last' = Obs("recv_from", nSockets, len, <<call>>, r, res, decoded)
                   /\ UNCHANGED <<sock, inst, nSockets, osFds, osOpts, shadow, endian>>

Send ==
    \E len \in 0..MaxLen :
        /\ Live
        /\ LET call == send_call(sock, len) IN
           \E r \in OsSendto(call) :
               /\ last' = Obs("send", nSockets, len, <<call>>, r, send_ret(r), "none")
               /\ UNCHANGED <<sock, inst, nSockets, osFds, osOpts, shadow, endian>>

SetTtl ==
    \E ttl \in TtlVals :
        /\ Live
        /\ LET call == set_ttl_call(sock, ttl) IN
           IF call.sys = "unreachable" THEN Aborted("set_ttl", ttl)
           ELSE \E r \in OsSetsockopt :
               LET res == setsockopt_ret(r) IN
               /\ last' = Obs("set_ttl", nSockets, ttl, <<call>>, r, res, "none")
               /\ osOpts' = OsStore(call, r)
               /\ shadow' = IF res.kind = "Ok" THEN [shadow EXCEPT !.ttl = ttl] ELSE shadow
               /\ UNCHANGED <<sock, inst, nSockets, osFds, endian>>

Ttl ==
    /\ Live
    /\ LET call == ttl_call(sock) IN
       IF call.sys = "unreachable" THEN Aborted("ttl", 0)
       ELSE \E r \in OsGetsockopt(call) :
           /\ last' = Obs("ttl", nSockets, 0, <<call>>, r, ttl_ret(r), "none")
           /\ UNCHANGED <<sock, inst, nSockets, osFds, osOpts, shadow, endian>>

SetBroadcast ==
    \E b \in BOOLEAN :
        /\ Live
        /\ LET call == set_broadcast_call(sock, b) IN
           \E r \in OsSetsockopt :
               LET res == setsockopt_ret(r) IN
               /\ last' = Obs("set_broadcast", nSockets, b, <<call>>, r, res, "none")
               /\ osOpts' = OsStore(call, r)
               /\ shadow' = IF res.kind = "Ok"
                            THEN [shadow EXCEPT !.bc = IF b THEN 1 ELSE 0] ELSE shadow
               /\ UNCHANGED <<sock, inst, nSockets, osFds, endian>>

Broadcast ==
    /\ Live
    /\ LET call == broadcast_call(sock) IN
       \E r \in OsGetsockopt(call) :
           /\ last' = Obs("broadcast", nSockets, 0, <<call>>, r, broadcast_ret(r), "none")
           /\ UNCHANGED <<sock, inst, nSockets, osFds, osOpts, shadow, endian>>

SetQos ==
    \E qos \in QosVals :
        /\ Live
        /\ LET call == set_qos_call(sock, qos) IN
           IF call.sys = "unreachable" THEN Aborted("set_qos", qos)
           ELSE \E r \in OsSetsockopt :
               LET res == setsockopt_ret(r) IN
               /\ last' = Obs("set_qos", nSockets, qos, <<call>>, r, res, "none")
               /\ osOpts' = OsStore(call, r)
               /\ shadow' = IF res.kind = "Ok" THEN [shadow EXCEPT !.qos = qos] ELSE shadow
               /\ UNCHANGED <<sock, inst, nSockets, osFds, endian>>

Qos ==
    /\ Live
    /\ LET call == qos_call(sock) IN
       IF call.sys = "unreachable" THEN Aborted("qos", 0)
       ELSE \E r \in OsGetsockopt(call) :
           /\ last' = Obs("qos", nSockets, 0, <<call>>, r, qos_ret(r), "none")
           /\ UNCHANGED <<sock, inst, nSockets, osFds, osOpts, shadow, endian>>

\* Drop: the Socket value goes away; the OS releases the descriptor whatever
\* close returns.
Drop ==
    /\ Live
    /\ LET call == drop_call(sock) IN
       \E r \in OsClose :
           /\ last' = Obs("drop", nSockets, 0, <<call>>, r, drop_ret(r), "none")
           /\ sock' = NoSocket
           /\ inst' = [inst EXCEPT ![nSockets] =
                           [NoInst EXCEPT !.state = "closed",
                                           !.closes = inst[nSockets].closes +
                                               (IF call.sys = "close" /\ call.fd = sock.fd
                                                THEN 1 ELSE 0)]]
           /\ osFds' = [osFds EXCEPT ![call.fd] = 0]
           /\ osOpts' = [osOpts EXCEPT ![call.fd] = DefaultOpts]
           /\ shadow' = NoShadow
           /\ UNCHANGED <<nSockets, endian>>

Next ==
    \/ Connect
    \/ Recv
    \/ RecvFrom
    \/ Send
    \/ SetTtl
    \/ Ttl
    \/ SetBroadcast
    \/ Broadcast
    \/ SetQos
    \/ Qos
    \/ Drop

Spec == Init /\ [][Next]_vars

TypeOK ==
    /\ sock.st \in {"none", "live"}
    /\ nSockets \in 0..MaxSockets
    /\ endian \in {"little", "big"}

(* ------------------------------- claims -------------------------------- *)

\* The socket instance the last operation acted on.
LastInst == inst[last.inst]

RawFailed == last.raw.ret = -1
RawInterrupted == last.raw.ret = -1 /\ last.raw.errno = "EINTR"

\* C1: interruption asymmetry.  When the receive syscall of recv or recv_from
\* fails with EINTR the operation returns success with a byte count of 0;
\* when the send syscall of send fails with EINTR, send returns that error.
C1_InterruptionAsymmetry ==
    /\ (last.op = "recv" /\ RawInterrupted) => last.res = Ok(0)
    /\ (last.op = "recv_from" /\ RawInterrupted) =>
           (last.res.kind = "Ok" /\ last.res.val[1] = 0)
    /\ (last.op = "send" /\ RawInterrupted) => last.res = Err("EINTR")

C1_Witness ==
    /\ last.op = "recv"
    /\ last.arg = MaxLen
    /\ RawInterrupted
    /\ last.res = Ok(0)

\* C4: connect failure is clean.  When the OS refuses socket creation, connect
\* returns an error carrying the OS error code, no Socket is constructed, only
\* the one socket() call was issued (no close) and no descriptor is open; when
\* creation succeeds connect returns a Socket owning exactly the descriptor the
\* OS returned, and the open descriptors are exactly those owned by a Socket.
C4_ConnectFailureClean ==
    /\ (last.op = "connect" /\ RawFailed) =>
           /\ last.res = Err(last.raw.errno)
           /\ ~Live
           /\ OpenFds = {}
           /\ Len(last.calls) = 1 /\ last.calls[1].sys = "socket"
    /\ (last.op = "connect" /\ ~RawFailed) =>
           /\ last.res.kind = "Ok"
           /\ Live
           /\ sock.fd = last.raw.ret
    /\ OpenFds = IF Live THEN {sock.fd} ELSE {}

C4_Witness ==
    /\ last.op = "connect"
    /\ last.raw = OsFail("EPERM")
    /\ last.res = Err("EPERM")
    /\ nSockets = 1
    /\ inst[1].state = "closed"

\* C7: recv_from never decodes a sender address from a buffer the OS did not
\* write: whenever recv_from applies the address codec's decode, the receive
\* call had succeeded and populated the native address buffer.
C7_DecodeOnlyWritten ==
    (last.op = "recv_from" /\ last.decoded # "none") => last.decoded = "written"

C7_DecodeUninit ==
    /\ last.op = "recv_from"
    /\ RawInterrupted
    /\ last.decoded = "uninit"

\* C2: release exactly once.  Every constructed Socket has the close call
\* issued on its descriptor exactly once, at destruction and never earlier:
\* a closed instance has one close call and any other none, the close count
\* changes only in the step that destroys the Socket and that step's single
\* syscall is close on the descriptor the instance owned, a closed instance
\* stays closed, every other operation acts on an instance that is still
\* open, and drop returns nothing whatever close returned.  So the number of
\* close calls is the number of destroyed sockets.
C2_ReleaseExactlyOnce ==
    /\ [](/\ \A i \in 1..MaxSockets :
                 /\ inst[i].closes = (IF inst[i].state = "closed" THEN 1 ELSE 0)
                 /\ (inst[i].state = "unborn") = (i > nSockets)
          /\ last.op \notin {"none", "connect", "drop"} =>
                 (LastInst.state = "open" /\ Live /\ last.inst = nSockets)
          /\ \A i \in 1..Len(last.calls) :
                 last.calls[i].sys = "close" => last.op = "drop"
          /\ last.op = "drop" => (last.res = Ok(0) /\ ~Live /\ LastInst.state = "closed"))
    /\ [][\A i \in 1..MaxSockets :
              /\ inst[i].state = "closed" => inst'[i].state = "closed"
              /\ inst[i].state = "open" => inst'[i].state \in {"open", "closed"}
              /\ inst'[i].closes # inst[i].closes =>
                     /\ inst[i].state = "open" /\ inst'[i].state = "closed"
                     /\ last'.op = "drop"
                     /\ last'.calls = <<[sys |-> "close", fd |-> inst[i].fd]>>
              /\ (inst[i].state = "open" /\ inst'[i].state = "closed") =>
                     inst'[i].closes = inst[i].closes + 1]_vars

C2_Witness ==
    /\ nSockets = MaxSockets
    /\ \A i \in 1..MaxSockets : inst[i].state = "closed" /\ inst[i].closes = 1
    /\ last.op = "drop"
    /\ last.raw = OsFail("EPERM")

\* C3: family fixation.  For a socket constructed from a v4 address every
\* set_ttl / ttl call requests (IPPROTO_IP, IP_TTL) and every set_qos / qos
\* call requests (IPPROTO_IP, 1); for a v6 address they request
\* (IPPROTO_IPV6, 16) and (IPPROTO_IPV6, 67); set_broadcast / broadcast
\* request (SOL_SOCKET, SO_BROADCAST) for both; the operation acts on the
\* socket's own descriptor and never reaches unreachable!().
C3_FamilyFixation ==
    /\ last.res.kind # "Panic"
    /\ last.op \in {"set_ttl", "ttl"} =>
           <<last.calls[1].level, last.calls[1].name>> =
               (IF LastInst.addr.tag = "V4" THEN <<IPPROTO_IP, IP_TTL>>
                ELSE <<IPPROTO_IPV6, 16>>)
    /\ last.op \in {"set_qos", "qos"} =>
           <<last.calls[1].level, last.calls[1].name>> =
               (IF LastInst.addr.tag = "V4" THEN <<IPPROTO_IP, 1>>
                ELSE <<IPPROTO_IPV6, 67>>)
    /\ last.op \in {"set_broadcast", "broadcast"} =>
           <<last.calls[1].level, last.calls[1].name>> = <<SOL_SOCKET, SO_BROADCAST>>
    /\ last.op \in {"set_ttl", "ttl", "set_qos", "qos", "set_broadcast", "broadcast"} =>
           last.calls[1].fd = LastInst.fd

C3_Witness ==
    /\ last.op = "qos"
    /\ LastInst.addr.tag = "V6"
    /\ last.inst = MaxSockets
    /\ <<last.calls[1].level, last.calls[1].name>> = <<IPPROTO_IPV6, IPV6_TCLASS>>
    /\ shadow.ttl # <<>>
    /\ shadow.bc # -1

\* C5: TTL round trip.  After set_ttl(V) succeeded on a socket, a ttl() that
\* succeeds with no other successful set_ttl in between returns V, for every
\* u32 V (written as its four bytes), whatever else was called in between.
C5_TtlRoundTrip ==
    (last.op = "ttl" /\ last.res.kind = "Ok" /\ shadow.ttl # <<>>) =>
        last.res.val = shadow.ttl

C5_Witness ==
    /\ last.op = "ttl"
    /\ last.res = Ok(<<128, 0, 0, 0>>)
    /\ shadow.ttl = <<128, 0, 0, 0>>
    /\ shadow.qos # -1
    /\ shadow.bc # -1

\* C6: broadcast toggling.  After set_broadcast(b) succeeded, a broadcast()
\* that succeeds returns b; broadcast() reports true exactly when the option
\* value stored by the OS is non-zero, and it gets that value from one
\* getsockopt call on the socket's descriptor.
C6_BroadcastToggle ==
    (last.op = "broadcast" /\ last.res.kind = "Ok") =>
        /\ shadow.bc # -1 => last.res.val = (shadow.bc = 1)
        /\ last.res.val =
               (osOpts[sock.fd][<<SOL_SOCKET, SO_BROADCAST>>] # <<0, 0, 0, 0>>)
        /\ Len(last.calls) = 1
        /\ last.calls[1].sys = "getsockopt"
        /\ last.calls[1].fd = sock.fd

C6_Witness ==
    /\ last.op = "broadcast"
    /\ last.res = Ok(TRUE)
    /\ shadow.bc = 1
    /\ shadow.ttl # <<>>

\* C8: propagation without retry.  Every public operation issues exactly
\* one syscall per invocation; if it fails, except for an interrupted
\* receive, the operation returns an error carrying the errno the call
\* produced; on success recv, recv_from and send return exactly the count the
\* OS returned.
C8_PropagationNoRetry ==
    /\ last.op \notin {"none", "drop"} => Len(last.calls) = 1
    /\ (last.op \notin {"none", "drop"} /\ RawFailed
            /\ ~(last.op \in {"recv", "recv_from"} /\ RawInterrupted)) =>
           last.res = Err(last.raw.errno)
    /\ (last.op \in {"recv", "send"} /\ ~RawFailed) => last.res = Ok(last.raw.ret)
    /\ (last.op = "recv_from" /\ ~RawFailed) =>
           (last.res.kind = "Ok" /\ last.res.val[1] = last.raw.ret)

C8_Witness ==
    /\ last.op = "ttl"
    /\ last.raw = OsFail("EINTR")
    /\ last.res = Err("EINTR")
    /\ shadow.ttl # <<>>

\* C9: socket fields are fixed at construction.  While a Socket lives its
\* family is AF_INET exactly when the connect address was v4 and AF_INET6
\* exactly when it was v6, its peer is the native encoding of that address and
\* its descriptor is the one the OS returned, after any operations; every send
\* passes that peer as the destination.
C9_FieldsFixed ==
    /\ Live =>
           /\ inst[nSockets].state = "open"
           /\ (sock.family = AF_INET) = (inst[nSockets].addr.tag = "V4")
           /\ (sock.family = AF_INET6) = (inst[nSockets].addr.tag = "V6")
           /\ sock.peer = into_inner(inst[nSockets].addr)
           /\ sock.fd = inst[nSockets].fd
    /\ last.op = "send" => last.calls[1].dest = into_inner(LastInst.addr)

\* A send after a recv_from whose sender was not the peer happens in the
\* behaviours of Spec; the witness is the send to the v4 peer 1.
C9_Witness ==
    /\ last.op = "send"
    /\ last.res = Ok(MaxLen)
    /\ LastInst.addr = [tag |-> "V4", ip |-> 1]
    /\ last.calls[1].dest = [sa_family |-> AF_INET, sa_data |-> 1]
    /\ shadow.ttl # <<>>

\* C10: QoS round trip across mismatched widths.  After set_qos(q) succeeded,
\* a qos() that succeeds returns q, for either family; and set_qos leaves the
\* stored TTL and broadcast values as they were.
C10_QosRoundTrip ==
    /\ (last.op = "qos" /\ last.res.kind = "Ok" /\ shadow.qos # -1) =>
           last.res.val = shadow.qos
    /\ (last.op = "set_qos" /\ Live) =>
           /\ osOpts[sock.fd][IF sock.family = AF_INET THEN <<IPPROTO_IP, IP_TTL>>
                              ELSE <<IPPROTO_IPV6, IPV6_UNICAST_HOPS>>] =
                  (IF shadow.ttl = <<>> THEN ToBytes(64)
                   ELSE ToBytes(U32AsCInt(shadow.ttl)))
           /\ osOpts[sock.fd][<<SOL_SOCKET, SO_BROADCAST>>] =
                  (IF shadow.bc = 1 THEN ToBytes(1) ELSE ToBytes(0))

C10_QosLost ==
    /\ last.op = "qos"
    /\ endian = "big"
    /\ shadow.qos = 1
    /\ last.res = Ok(0)

====
